---- MODULE Spec2Model ----
(***************************************************************************)
(* A model of cot_proxy.py: the StreamBuffer think-tag filter, the         *)
(* per-request override resolution of proxy(), and the life cycle of one   *)
(* proxied request (upstream call, buffered or streamed reply, teardown).  *)
(*                                                                         *)
(* Text is a sequence of characters and a chunk a sequence of bytes; both  *)
(* are written as short strings.  The ASCII characters "<", "/" and ">"    *)
(* are one byte each, the character "E9" (U+00E9) is the two bytes         *)
(* "C3" "A9", and "FFFD" is the replacement character U+FFFD, encoded as   *)
(* the three bytes "EF" "BF" "BD".                                         *)
(***************************************************************************)
EXTENDS Integers, Sequences, FiniteSets, TLC

\* ------------------------------------------------------------------ bounds
\* Most bytes fed to a StreamBuffer over one stream (short-tag streams).
MaxLen == 5
\* Most chunks fed to a StreamBuffer whose start tag is longer than the
\* retention window (long-tag streams).
MaxLongChunks == 2
\* Most bytes in one chunk of a short-tag stream.
MaxChunk == 2
\* Most chunks the upstream reply of one streamed request is made of.
MaxUp == 3
\* Most chunks the upstream reply of each of two concurrent requests is made
\* of.
MaxPair == 2

\* ------------------------------------------------------- program constants
\* cot_proxy.py:62  `if len(self.buffer) > 1024`, and the slices of 63, 64.
KEEP == 1024

\* ------------------------------------------------------- bytes and text
Ascii == {"<", "/", ">"}
\* The ASCII characters of the JSON documents of a model listing.  "data:"
\* is the key "data" with its colon; "a" and "b" are model descriptors of the
\* upstream, "id=..." the descriptor the proxy makes for a model name, "n" a
\* null.
JsonChars == {"{", "}", "[", "]", "data:", ",", " ", "a", "b", "n",
              "id=m1", "id=m2", "id=default"}
Plain == Ascii \cup JsonChars
\* The bytes an upstream chunk is made of.
Byte == Ascii \cup {"C3", "A9"}
\* The characters decoded text is made of.
Char == Ascii \cup {"E9", "FFFD"}

Rep(c, n) == [i \in 1..n |-> c]

Min(S) == CHOOSE x \in S : \A y \in S : x <= y

\* s[a:] and s[:a] for 0 <= a <= len(s)
Drop(s, a) == SubSeq(s, a + 1, Len(s))
Take(s, a) == SubSeq(s, 1, a)

\* bytes.decode("utf-8", errors="replace"): an ASCII byte
\* is its character; the lead byte C3 followed by the continuation byte A9 is
\* U+00E9; a lead byte with no continuation byte after it, and a continuation
\* byte with no lead byte before it, each become one U+FFFD.  (The A9 that
\* follows a C3 is part of that C3's character and yields nothing itself.)
Decode(bs) ==
    LET unit(i) ==
            IF bs[i] \in Plain THEN bs[i]
            ELSE IF bs[i] = "C3"
                 THEN IF i < Len(bs) /\ bs[i + 1] = "A9" THEN "E9" ELSE "FFFD"
            ELSE IF i > 1 /\ bs[i - 1] = "C3" THEN "" ELSE "FFFD"
        units == [i \in 1..Len(bs) |-> unit(i)]
        IsChar(c) == c # ""
    IN  SelectSeq(units, IsChar)

\* str.encode("utf-8")
EncodeChar(c) ==
    IF c \in Plain THEN <<c>>
    ELSE IF c = "E9" THEN <<"C3", "A9">>
    ELSE <<"EF", "BF", "BD">>

RECURSIVE Encode(_)
Encode(cs) ==
    IF cs = <<>> THEN <<>>
    ELSE IF Len(cs) = 1 THEN EncodeChar(cs[1])
    ELSE Encode(Take(cs, Len(cs) \div 2)) \o Encode(Drop(cs, Len(cs) \div 2))

\* The bytes are the UTF-8 encoding of some text (a strict decode succeeds).
Valid(bs) == Encode(Decode(bs)) = bs

\* str.find(sub, from): the lowest 0-based index >= from at which sub occurs
\* in s, or -1.
Find(s, sub, from) ==
    LET hits == {i \in from..(Len(s) - Len(sub)) :
                    \A j \in 1..Len(sub) : s[i + j] = sub[j]}
    IN  IF hits = {} THEN -1 ELSE Min(hits)

\* re.sub(re.escape(st) + ".*?" + re.escape(et), "", text, flags=re.DOTALL)
\* for non-empty tags: the leftmost start tag, then the first end tag that
\* begins at or after the end of that start tag; the scan resumes after it.
RECURSIVE ReSub(_, _, _)
ReSub(text, st, et) ==
    LET i == Find(text, st, 0)
        j == IF i = -1 THEN -1 ELSE Find(text, et, i + Len(st))
    IN  IF i = -1 \/ j = -1 THEN text
        ELSE Take(text, i) \o ReSub(Drop(text, j + Len(et)), st, et)

\* ------------------------------------------------------------ StreamBuffer
\* The state of one run of process_chunk's `while True` loop: the buffer, the
\* output so far, and for every character the loop has taken off the front
\* of the buffer whether it was put in the output ("E") or discarded ("R").
\* One iteration of the loop; done is TRUE when the iteration ends in `break`.
\* A loop that forgets line 70: the text before the start tag goes to the
\* output and stays in the buffer.
LoopStepNoSlice(b, st, et) ==
    LET start == Find(b.buffer, st, 0)
    IN  IF start = -1
        THEN IF Len(b.buffer) > KEEP
             THEN [buffer |-> Drop(b.buffer, Len(b.buffer) - KEEP),
                   output |-> b.output \o Take(b.buffer, Len(b.buffer) - KEEP),
                   marks  |-> b.marks \o Rep("E", Len(b.buffer) - KEEP),
                   done   |-> TRUE]
             ELSE [b EXCEPT !.done = TRUE]
        ELSE LET b1 == [b EXCEPT !.output = @ \o Take(b.buffer, start),
                                 !.marks = @ \o Rep("E", start)]
                 end == Find(b1.buffer, et, start)
             IN  IF end = -1
                 THEN [b1 EXCEPT !.done = TRUE]
                 ELSE [b1 EXCEPT !.buffer = Drop(b1.buffer, end + Len(et)),
                                 !.marks  = @ \o Rep("R", end + Len(et) - start)]

\* A loop that keeps no window: without a start tag the whole buffer goes to
\* the output once it is longer than the threshold.
LoopStepNoWindow(b, st, et) ==
    LET start == Find(b.buffer, st, 0)
    IN  IF start = -1
        THEN IF Len(b.buffer) > KEEP
             THEN [buffer |-> <<>>,
                   output |-> b.output \o b.buffer,
                   marks  |-> b.marks \o Rep("E", Len(b.buffer)),
                   done   |-> TRUE]
             ELSE [b EXCEPT !.done = TRUE]
        ELSE LET b1 == IF start > 0
                       THEN [buffer |-> Drop(b.buffer, start),
                             output |-> b.output \o Take(b.buffer, start),
                             marks  |-> b.marks \o Rep("E", start),
                             done   |-> FALSE]
                       ELSE b
                 end == Find(b1.buffer, et, 0)
             IN  IF end = -1
                 THEN [b1 EXCEPT !.done = TRUE]
                 ELSE [b1 EXCEPT !.buffer = Drop(b1.buffer, end + Len(et)),
                                 !.marks  = @ \o Rep("R", end + Len(et))]

LoopStep(b, st, et) ==
    LET start == Find(b.buffer, st, 0)
    IN  IF start = -1
        THEN IF Len(b.buffer) > KEEP
             THEN [buffer |-> Drop(b.buffer, Len(b.buffer) - KEEP),
                   output |-> b.output \o Take(b.buffer, Len(b.buffer) - KEEP),
                   marks  |-> b.marks \o Rep("E", Len(b.buffer) - KEEP),
                   done   |-> TRUE]
             ELSE [b EXCEPT !.done = TRUE]
        ELSE LET b1 == IF start > 0
                       THEN [buffer |-> Drop(b.buffer, start),
                             output |-> b.output \o Take(b.buffer, start),
                             marks  |-> b.marks \o Rep("E", start),
                             done   |-> FALSE]
                       ELSE b
                 \* `start = 0` on line 71, or start was 0 already
                 end == Find(b1.buffer, et, 0)
             IN  IF end = -1
                 THEN [b1 EXCEPT !.done = TRUE]
                 ELSE [b1 EXCEPT !.buffer = Drop(b1.buffer, end + Len(et)),
                                 !.marks  = @ \o Rep("R", end + Len(et))]

RECURSIVE Loop(_, _, _)
Loop(b, st, et) ==
    IF b.done THEN b ELSE Loop(LoopStep(b, st, et), st, et)

\* The `while True` loop never ends: an iteration that does not break leaves
\* the buffer as it found it, so every later iteration does the same.
RECURSIVE LoopHangs(_, _, _)
LoopHangs(b, st, et) ==
    IF b.done THEN FALSE
    ELSE LET n == LoopStep(b, st, et)
         IN  IF ~n.done /\ n.buffer = b.buffer THEN TRUE
             ELSE LoopHangs(n, st, et)

\* process_chunk never returns for this buffer and chunk.
Hangs(buf, st, et, chunk) ==
    LoopHangs([buffer |-> buf \o Decode(chunk), output |-> <<>>,
               marks |-> <<>>, done |-> FALSE], st, et)

\* StreamBuffer.process_chunk: the new buffer, the returned bytes, the marks.
process_chunk(buf, st, et, chunk) ==
    LET r == Loop([buffer |-> buf \o Decode(chunk), output |-> <<>>,
                   marks |-> <<>>, done |-> FALSE], st, et)
    IN  [buffer |-> r.buffer, output |-> Encode(r.output), marks |-> r.marks]

\* StreamBuffer.flush: the returned bytes (the buffer becomes empty).
flush(buf) == Encode(buf)

\* ------------------------------------------------------- JSON and config
\* A JSON value: its type and its text.  Python's None is JNull.
JNull      == [t |-> "null", v |-> ""]
JBool(b)   == [t |-> "bool", v |-> IF b THEN "true" ELSE "false"]
JStr(x)    == [t |-> "str", v |-> x]
JNum(t, x) == [t |-> t, v |-> x]
\* A JSON array, and a JSON string that is given by its characters (the text
\* of a message, which the proxy concatenates to).
JList(xs)  == [t |-> "list", v |-> xs]
JText(cs)  == [t |-> "str", v |-> cs]

\* Python truth of a JSON value (`if x:`).
Truthy(j) ==
    CASE j.t = "null" -> FALSE
      [] j.t = "bool" -> j.v = "true"
      [] j.t = "str"  -> j.v # ""
      [] j.t = "list" -> j.v # <<>>
      [] OTHER        -> j.v \notin {"0", "0.0"}

\* A request without a JSON body (request.is_json is false, or the body does
\* not parse): json_body is None.  A dict is a function from the keys it
\* holds to JSON values; json_body is a record that tells None from a dict.
EmptyDict == [k \in {} |-> JNull]
NoBody == [json |-> FALSE, obj |-> EmptyDict]
Dict(d) == [json |-> TRUE, obj |-> d]
IsDict(b) == b.json
\* `if json_body:` - a dict is true when it holds a key.
TruthyBody(b) == IsDict(b) /\ DOMAIN b.obj # {}

\* d[k] = x
Put(d, k, x) == [q \in DOMAIN d \cup {k} |-> IF q = k THEN x ELSE d[q]]

\* str.lower() on the values used here.
Lower(x) ==
    CASE x \in {"True", "TRUE"} -> "true"
      [] x \in {"NULL", "Null"} -> "null"
      [] OTHER -> x

\* PARAM_TYPES
FloatParams == {"temperature", "top_p", "presence_penalty", "frequency_penalty",
                "repetition_penalty"}
IntParams   == {"top_k", "max_tokens", "n", "seed", "num_ctx", "num_predict",
                "repeat_last_n", "batch_size"}
BoolParams  == {"echo", "stream", "mirostat"}

\* int(x) and float(x) succeed on these values.
IntText   == {"7", "0"}
FloatText == {"0.5", "7", "0"}
FloatOf(x) == IF x = "7" THEN "7.0" ELSE IF x = "0" THEN "0.0" ELSE x

\* A conversion that looks the key up before it looks for a null.
convert_known_first(key, value) ==
    IF key \notin FloatParams \cup IntParams \cup BoolParams THEN JStr(value)
    ELSE IF value = "" \/ Lower(value) = "null" THEN JNull
    ELSE IF key \in BoolParams THEN JBool(Lower(value) = "true")
    ELSE IF key \in IntParams
         THEN IF value \in IntText THEN JNum("int", value) ELSE JStr(value)
    ELSE IF value \in FloatText THEN JNum("float", FloatOf(value)) ELSE JStr(value)

\* convert_param_value (lines 96-112)
convert_param_value(key, value) ==
    IF value = "" \/ Lower(value) = "null" THEN JNull
    ELSE IF key \notin FloatParams \cup IntParams \cup BoolParams THEN JStr(value)
    ELSE IF key \in BoolParams THEN JBool(Lower(value) = "true")
    ELSE IF key \in IntParams
         THEN IF value \in IntText THEN JNum("int", value) ELSE JStr(value)
    ELSE IF value \in FloatText THEN JNum("float", FloatOf(value)) ELSE JStr(value)

\* The keys proxy() keeps as raw strings, and those it never forwards.
NoKeys == {}
RawKeys == {"think_tag_start", "think_tag_end", "upstream_model_name",
            "append_to_last_user_message"}
ControlKeys == RawKeys \cup {"enable_think_tag_filtering"}

\* LLM_PARAMS is a sequence of entries (the pieces between ";"), an entry a
\* sequence of fields (the pieces between ","), and a field either
\* <<key, value>> (it holds "=", split at the first one) or <<token>>.
\* Unset (or empty) LLM_PARAMS is the empty sequence.
IsModelEntry(entry) ==
    entry # <<>> /\ Len(entry[1]) = 2 /\ entry[1][1] = "model"

\* The dict proxy() builds for one entry: each key=value field after the
\* first, a later field overwriting an earlier one of the same key.
EntryConfig(entry) ==
    LET at   == {i \in 2..Len(entry) : Len(entry[i]) = 2}
        keys == {entry[i][1] : i \in at}
        last(k) == CHOOSE i \in at :
                       /\ entry[i][1] = k
                       /\ \A j \in at : entry[j][1] = k => j <= i
        conv(k, x) ==
            IF k \in RawKeys THEN JStr(x)
            ELSE IF k = "enable_think_tag_filtering" THEN JBool(Lower(x) = "true")
            ELSE convert_param_value(k, x)
    IN  [k \in keys |-> conv(k, entry[last(k)][2])]

\* A parse that stops at the first entry that does not start with model=.
ModelConfigsUntilMalformed(llm_params) ==
    LET bad   == {i \in 1..Len(llm_params) : ~IsModelEntry(llm_params[i])}
        n     == IF bad = {} THEN Len(llm_params) ELSE Min(bad) - 1
        names == {llm_params[i][1][2] : i \in 1..n}
        last(m) == CHOOSE i \in 1..n :
                       /\ llm_params[i][1][2] = m
                       /\ \A j \in 1..n : llm_params[j][1][2] = m => j <= i
    IN  [m \in names |-> EntryConfig(llm_params[last(m)])]

\* model_configs: the dict of the entries that start with model=, a later
\* entry replacing an earlier one of the same name.
ModelConfigs(llm_params) ==
    LET at    == {i \in 1..Len(llm_params) : IsModelEntry(llm_params[i])}
        names == {llm_params[i][1][2] : i \in at}
        last(m) == CHOOSE i \in at :
                       /\ llm_params[i][1][2] = m
                       /\ \A j \in at : llm_params[j][1][2] = m => j <= i
    IN  [m \in names |-> EntryConfig(llm_params[last(m)])]

\* Which entry of model_configs proxy() takes for json_body: its name, or
\* "" when it takes none (lines 200-203, 231-233, 255, 264).
NoEntry == [found |-> FALSE, name |-> ""]
LookupEntry(json_body, llm_params) ==
    IF ~TruthyBody(json_body) \/ llm_params = <<>> THEN NoEntry
    ELSE LET configs == ModelConfigs(llm_params)
             has     == "model" \in DOMAIN json_body.obj
             named   == has /\ Truthy(json_body.obj["model"])
         IN  IF named /\ json_body.obj["model"].t = "str"
                      /\ json_body.obj["model"].v \in DOMAIN configs
             THEN [found |-> TRUE, name |-> json_body.obj["model"].v]
             ELSE IF named THEN NoEntry
             ELSE IF "default" \in DOMAIN configs
             THEN [found |-> TRUE, name |-> "default"]
             ELSE NoEntry

\* model_specific_config
SpecificConfig(json_body, llm_params) ==
    LET e == LookupEntry(json_body, llm_params)
    IN  IF e.found THEN ModelConfigs(llm_params)[e.name] ELSE EmptyDict

\* dict.get(key, default) on a config of JSON strings and booleans
GetOr(cfg, key, default) == IF key \in DOMAIN cfg THEN cfg[key] ELSE default

\* A proxy that filters unless told otherwise.
EnableFilteringOn(cfg) ==
    GetOr(cfg, "enable_think_tag_filtering", JBool(TRUE)).v = "true"

\* enable_think_tag_filtering (lines 193, 237, 268)
EnableFiltering(cfg) ==
    GetOr(cfg, "enable_think_tag_filtering", JBool(FALSE)).v = "true"

\* effective_think_start_tag / effective_think_end_tag (189-190, 235-236,
\* 266-267), as tag strings
EffectiveStart(cfg, default_start) == GetOr(cfg, "think_tag_start", JStr(default_start)).v
EffectiveEnd(cfg, default_end)     == GetOr(cfg, "think_tag_end", JStr(default_end)).v

\* The body sent upstream: model replaced by upstream_model_name, then every
\* key of the config that is no control key written into it (241-253,
\* 272-281).
RECURSIVE PutAll(_, _, _)
PutAll(d, cfg, keys) ==
    IF keys = {} THEN d
    ELSE LET k == CHOOSE k \in keys : TRUE
         IN  PutAll(Put(d, k, cfg[k]), cfg, keys \ {k})

\* A rewrite that leaves `model` alone.
RewriteKeepModel(json_body, cfg) ==
    IF ~IsDict(json_body) \/ DOMAIN cfg = {} THEN json_body
    ELSE Dict(PutAll(json_body.obj, cfg, DOMAIN cfg \ ControlKeys))

Rewrite(json_body, cfg) ==
    IF ~IsDict(json_body) \/ DOMAIN cfg = {} THEN json_body
    ELSE LET b1 == IF "upstream_model_name" \in DOMAIN cfg
                   THEN Put(json_body.obj, "model", cfg["upstream_model_name"])
                   ELSE json_body.obj
         IN  Dict(PutAll(b1, cfg, DOMAIN cfg \ ControlKeys))

\* The characters of the value of append_to_last_user_message.
TextOf(x) == IF x = "+" THEN <<"+">> ELSE <<"?">>

\* Messages and the parts of a message whose content is a list.
UserMessage(content) == [role |-> "user", content |-> content]
AssistantMessage(content) == [role |-> "assistant", content |-> content]
TextPart(cs) == [type |-> "text", text |-> cs]
ImagePart    == [type |-> "image_url", image_url |-> "u"]
IsTextPart(part) == part.type = "text" /\ "text" \in DOMAIN part

\* Lines 307-323: the string goes to the last text part, scanning from the
\* end, or into a new text part.
AppendToParts(parts, cs) ==
    LET at == {i \in 1..Len(parts) : IsTextPart(parts[i])}
    IN  IF at = {} THEN Append(parts, TextPart(cs))
        ELSE LET i == CHOOSE i \in at : \A j \in at : j <= i
             IN  [parts EXCEPT ![i] = TextPart(parts[i].text \o cs)]

\* Lines 295-331: what becomes of a non-empty message list.
AppendToMessages(msgs, cs) ==
    LET last == msgs[Len(msgs)]
    IN  IF last.role = "user"
        THEN IF last.content.t = "str"
             THEN [msgs EXCEPT ![Len(msgs)].content = JText(last.content.v \o cs)]
             ELSE IF last.content.t = "list"
             THEN [msgs EXCEPT ![Len(msgs)].content =
                                   JList(AppendToParts(last.content.v, cs))]
             ELSE [msgs EXCEPT ![Len(msgs)].content = JText(cs)]
        ELSE Append(msgs, UserMessage(JText(cs)))

\* Lines 286-331 raise on a `messages` that is no list: when it is false
\* (null, say) setdefault returns it and it has no append (290-291); when it
\* is true, taking its last element or that element's role fails (296-297).
\* Nothing in proxy() catches that.
AppendRaises(json_body, cfg) ==
    /\ Truthy(GetOr(cfg, "append_to_last_user_message", JNull))
    /\ TruthyBody(json_body)
    /\ "messages" \in DOMAIN json_body.obj
    /\ json_body.obj["messages"].t # "list"

\* Lines 286-331: append_to_last_user_message; json_body as it is when
\* the lines are done, or when they raise.
AppendToLast(json_body, cfg) ==
    LET append_string == GetOr(cfg, "append_to_last_user_message", JNull)
    IN  IF ~Truthy(append_string) \/ ~TruthyBody(json_body) THEN json_body
        ELSE IF AppendRaises(json_body, cfg) THEN json_body
        ELSE LET cs == TextOf(append_string.v)
             IN  IF "messages" \notin DOMAIN json_body.obj
                    \/ ~Truthy(json_body.obj["messages"])
                 THEN Dict(Put(json_body.obj, "messages",
                               JList(<<UserMessage(JText(cs))>>)))
                 ELSE Dict(Put(json_body.obj, "messages",
                               JList(AppendToMessages(json_body.obj["messages"].v, cs))))

\* The characters of a tag string.
TagChars(x) ==
    CASE x = "<>"  -> <<"<", ">">>
      [] x = "</>" -> <<"<", "/", ">">>
      [] x = "/"   -> <<"/">>
      [] x = ">"   -> <<">">>

\* ------------------------------------------------- a StreamBuffer in use
\* The tag pairs a StreamBuffer is constructed with.  Both tags are raw
\* strings of the configuration (THINK_TAG / THINK_END_TAG, think_tag_start /
\* think_tag_end), so any pair of strings can occur.  DefaultTags has the
\* shape of "<think>" / "</think>"; SameTags is one delimiter used for both
\* ends; WideTags holds a two-byte character; LongTags has a start tag
\* longer than the retention window.
DefaultTags == [s |-> <<"<", ">">>, e |-> <<"<", "/", ">">>]
SameTags    == [s |-> <<"/">>, e |-> <<"/">>]
WideTags    == [s |-> <<"<", "E9">>, e |-> <<">">>]
LongTags    == [s |-> <<"<">> \o Rep("/", KEEP) \o <<">">>, e |-> <<"<", ">">>]
\* think_tag_end= and think_tag_start= in LLM_PARAMS: an empty tag.
EmptyEnd    == [s |-> <<"<">>, e |-> <<>>]
EmptyStart  == [s |-> <<>>, e |-> <<">">>]
TagPairs    == {DefaultTags, SameTags, WideTags, LongTags, EmptyEnd, EmptyStart}

VARIABLES
    \* --- a StreamBuffer and the stream it is given
    start_tag,  \* StreamBuffer.start_tag
    end_tag,    \* StreamBuffer.end_tag
    buffer,     \* StreamBuffer.buffer
    fed,        \* the bytes given to process_chunk so far, concatenated
    text,       \* the same bytes as process_chunk decoded them, chunk by chunk
    fate,       \* for each character of text no longer in the buffer:
                \* "E" returned to the caller, "R" discarded
    emitted,    \* the bytes returned by process_chunk and flush so far
    nchunks,    \* the number of process_chunk calls so far
    flushed,    \* flush has been called
    hung,       \* a process_chunk call has not returned and never will
    \* --- the process and one request
    environ,    \* os.environ: LLM_PARAMS, THINK_TAG, THINK_END_TAG
    import_environ,     \* os.environ as it was when the module was imported
    DEFAULT_THINK_START_TAG,    \* module global, line 14
    DEFAULT_THINK_END_TAG,      \* module global, line 15
    call,           \* a call of convert_param_value: its arguments and
                    \* what it returned
    path,           \* the path of the request, from when proxy() compares it
                    \* with the model list paths (line 401)
    request_json,   \* the JSON body the client sent (NoBody: none)
    json_body,      \* json_body, as given to requests.request
    model_specific_config,
    effective_think_start_tag,
    effective_think_end_tag,
    enable_think_tag_filtering,
    pc,             \* "start", "responded" (proxy returned a buffered
                    \* Response), "streaming" (it returned a streamed one)
    api_response,   \* g.api_response: "unset", "open", "closed"
    closes,         \* the number of g.api_response.close() calls
    upstream,       \* the upstream reply: status and, once read, content
    response,       \* the Response proxy() returned
    pulled,         \* the chunks iter_content has produced so far
    upstream_end,   \* "open", "exhausted" or "raised": how iter_content ended
    gen,            \* generate_filtered_response: "none", "fresh" (created),
                    \* "running", "at_yield" (suspended at 469 or 481),
                    \* "at_final" (suspended at 477), "done"
    client_disconnected,
    client_out,     \* the chunks the generator has yielded
    flush_calls,    \* the number of buffer.flush() calls
    torn,           \* the request context has been torn down
    \* --- two requests in one process
    handling        \* for each request being handled: the locals of its
                    \* proxy() call and of its generator

bufvars == <<start_tag, end_tag, buffer, fed, text, fate, emitted, nchunks, flushed, hung>>
harness == <<fed, text, fate, emitted, nchunks, flushed, hung>>
envvars == <<environ, import_environ, DEFAULT_THINK_START_TAG, DEFAULT_THINK_END_TAG>>
reqvars == <<path, request_json, json_body, model_specific_config,
             effective_think_start_tag, effective_think_end_tag,
             enable_think_tag_filtering>>
runvars == <<pc, api_response, closes, upstream, response, pulled, upstream_end,
             gen, client_disconnected, client_out, flush_calls, torn>>
vars == <<bufvars, envvars, reqvars, runvars, call, handling>>

\* An environment variable that is not set.
Unset == "(unset)"

\* A process that does not read the variable.
GetEnvHard(value, default) == default

\* os.getenv(name, default)
GetEnv(value, default) == IF value = Unset THEN default ELSE value

\* The hardcoded defaults of lines 14-15 ("<think>", "</think>").
HardStart == "<>"
HardEnd   == "</>"

NoResponse == [status |-> 0, body |-> <<>>, streamed |-> FALSE]
NoUpstream == [status |-> 0, content |-> <<>>, failure |-> {}]

\* The path has not been looked at.
NotRead == "(not read)"

\* No pair of requests is being handled.
Nobody == <<>>

\* convert_param_value is not being called.
NoCall == [key |-> "", value |-> "", returned |-> FALSE, result |-> JNull]

\* No request is being served.
NotServing ==
    /\ path = NotRead
    /\ request_json = NoBody
    /\ json_body = NoBody
    /\ model_specific_config = EmptyDict
    /\ effective_think_start_tag = HardStart
    /\ effective_think_end_tag = HardEnd
    /\ enable_think_tag_filtering = FALSE
    /\ pc = "idle"
    /\ api_response = "unset"
    /\ closes = 0
    /\ upstream = NoUpstream
    /\ response = NoResponse
    /\ pulled = <<>>
    /\ upstream_end = "open"
    /\ gen = "none"
    /\ client_disconnected = FALSE
    /\ client_out = <<>>
    /\ flush_calls = 0
    /\ torn = FALSE

\* No request is being served, in a process with an empty environment.
NoRequest ==
    /\ environ = [LLM_PARAMS |-> <<>>, THINK_TAG |-> Unset, THINK_END_TAG |-> Unset]
    /\ import_environ = environ
    /\ DEFAULT_THINK_START_TAG = HardStart
    /\ DEFAULT_THINK_END_TAG = HardEnd
    /\ NotServing

\* The chunks of a short-tag stream: every non-empty byte string of at most
\* MaxChunk bytes that keeps the stream within MaxLen bytes.
ShortChunks(room) ==
    UNION {[1..n -> Byte] : n \in 1..(IF room < MaxChunk THEN room ELSE MaxChunk)}

\* The chunks of a long-tag stream: all of the start tag but its last
\* character, that last character, and an end tag.
LongChunks == {<<"<">> \o Rep("/", KEEP), <<">">>, <<"<", ">">>}

Chunks ==
    IF Len(start_tag) > KEEP
    THEN IF nchunks < MaxLongChunks THEN LongChunks ELSE {}
    ELSE ShortChunks(MaxLen - Len(fed))

NoStream ==
    /\ fed = <<>>
    /\ text = <<>>
    /\ fate = <<>>
    /\ emitted = <<>>
    /\ nchunks = 0
    /\ flushed = FALSE
    /\ hung = FALSE

BufInit ==
    /\ \E p \in TagPairs : start_tag = p.s /\ end_tag = p.e
    /\ buffer = <<>>
    /\ NoStream
    /\ NoRequest
    /\ call = NoCall
    /\ handling = Nobody

\* output += buffer.process_chunk(chunk)
Feed ==
    /\ ~flushed
    /\ ~hung
    /\ \E chunk \in Chunks :
         IF Hangs(buffer, start_tag, end_tag, chunk)
         THEN /\ hung' = TRUE
              /\ buffer' = buffer \o Decode(chunk)
              /\ fed' = fed \o chunk
              /\ text' = text \o Decode(chunk)
              /\ nchunks' = nchunks + 1
              /\ UNCHANGED <<fate, emitted>>
         ELSE LET r == process_chunk(buffer, start_tag, end_tag, chunk)
              IN  /\ buffer' = r.buffer
                  /\ fed' = fed \o chunk
                  /\ text' = text \o Decode(chunk)
                  /\ fate' = fate \o r.marks
                  /\ emitted' = emitted \o r.output
                  /\ nchunks' = nchunks + 1
                  /\ hung' = FALSE
    /\ UNCHANGED <<start_tag, end_tag, flushed, envvars, call, handling, reqvars, runvars>>

\* output += buffer.flush()
Flush ==
    /\ ~flushed
    /\ ~hung
    /\ emitted' = emitted \o flush(buffer)
    /\ fate' = fate \o Rep("E", Len(buffer))
    /\ buffer' = <<>>
    /\ flushed' = TRUE
    /\ UNCHANGED <<start_tag, end_tag, fed, text, nchunks, hung, envvars, call, handling, reqvars, runvars>>

BufNext == Feed \/ Flush

SpecBuffer == BufInit /\ [][BufNext]_vars

\* ---------------------------------------------------------------------
\* convert_param_value on its own: a key and a raw value go in, a JSON value
\* comes out.

\* Keys of each type of PARAM_TYPES, and two it does not hold.
Keys == {"temperature", "top_p", "top_k", "seed", "echo", "stream", "stop",
         "think_tag_start"}
\* Raw values: empty, the spellings of null and true, numbers, other text.
Raws == {"", "null", "NULL", "Null", "true", "TRUE", "True", "false", "yes",
         "7", "0", "0.5", "x"}

ConvertInit ==
    /\ start_tag = <<>>
    /\ end_tag = <<>>
    /\ buffer = <<>>
    /\ NoStream
    /\ NoRequest
    /\ handling = Nobody
    /\ \E k \in Keys, raw \in Raws :
         call = [key |-> k, value |-> raw, returned |-> FALSE, result |-> JNull]

\* result = convert_param_value(key, value)
Convert ==
    /\ ~call.returned
    /\ call' = [call EXCEPT !.returned = TRUE,
                            !.result = convert_param_value(call.key, call.value)]
    /\ UNCHANGED <<bufvars, envvars, reqvars, runvars, handling>>

SpecConvert == ConvertInit /\ [][Convert]_vars

\* ------------------------------------------------------------ one request
\* LLM_PARAMS values.
OnlyFilter   == << <<<<"model", "m1">>, <<"enable_think_tag_filtering", "true">>>> >>
OnlyTags     == << <<<<"model", "m1">>, <<"think_tag_start", "/">>,
                     <<"think_tag_end", ">">>>> >>
DefaultEntry == << <<<<"model", "default">>, <<"enable_think_tag_filtering", "True">>,
                     <<"temperature", "0.5">>>> >>
Mixed        == << <<<<"model", "m1">>, <<"think_tag_start", "/">>,
                     <<"think_tag_end", ">">>, <<"enable_think_tag_filtering", "true">>>>,
                   <<<<"malformed_entry">>>>,
                   <<<<"model", "default">>, <<"stream", "true">>>> >>
Renamed      == << <<<<"model", "m1">>, <<"upstream_model_name", "m2">>,
                     <<"think_tag_start", "<>">>,
                     <<"append_to_last_user_message", "+">>, <<"top_k", "7">>>> >>
Twice        == << <<<<"model", "m1">>, <<"temperature", "0.5">>>>,
                   <<<<"model", "m1">>, <<"top_k", "x">>, <<"echo", "yes">>,
                     <<"seed", "null">>>> >>
Skipped      == << <<<<"model", "m1">>, <<"temperature", "0.5">>>>,
                   <<<<"malformed_entry">>>>,
                   <<>>,
                   <<<<"name", "m1">>, <<"top_k", "0">>>>,
                   <<<<"model", "m2">>, <<"top_k", "7">>, <<"no_value">>,
                     <<"think_tag_start", "/">>>> >>
ParamsChoices ==
    {<<>>, OnlyFilter, OnlyTags, DefaultEntry, Mixed, Renamed, Twice, Skipped}

Environs ==
    {[LLM_PARAMS |-> p, THINK_TAG |-> t[1], THINK_END_TAG |-> t[2]] :
        p \in ParamsChoices, t \in {<<Unset, Unset>>, <<"/", ">">>}}

\* The JSON bodies a client sends: none, or an object with or without
\* `model`, `stream` and `messages`.
Absent == [t |-> "absent", v |-> ""]
Object(m, st, ms) ==
    LET given == [model |-> m, stream |-> st, messages |-> ms]
    IN  Dict([k \in {q \in {"model", "stream", "messages"} : given[q] # Absent} |-> given[k]])
\* The message lists of the requests.
Hello == UserMessage(JText(<<"h">>))
MessageLists ==
    {<<>>,
     <<Hello>>,
     <<Hello, AssistantMessage(JText(<<"a">>))>>,
     <<AssistantMessage(JText(<<"a">>)),
       UserMessage(JList(<<TextPart(<<"t">>), TextPart(<<"u">>), ImagePart>>))>>,
     <<UserMessage(JList(<<ImagePart>>))>>,
     <<UserMessage(JList(<<>>))>>,
     <<UserMessage(JNull)>>}
Bodies ==
    {NoBody} \cup
    {Object(m, st, ms) : m \in {Absent, JStr("m1"), JStr("m2"), JStr("")},
                         st \in {Absent, JBool(TRUE), JBool(FALSE)},
                         ms \in {Absent, JList(<<Hello>>)}} \cup
    {Object(JStr("m1"), Absent, JList(ms)) : ms \in MessageLists} \cup
    {Object(JStr("m1"), Absent, JNull)}

\* The chunks iter_content produces, and the bodies of a buffered reply: a
\* span and more, one character of two bytes, a byte sequence that is not
\* UTF-8, and a span that lies inside a start tag.
UpChunks == {<<"<">>, <<">">>, <<"/">>, <<"<", "/", ">">>}
Contents == {<<"<", ">", "/", "<", "/", ">", ">">>, <<"C3", "A9">>, <<"C3">>,
             <<"<", "<", ">", "<", "/", ">", ">", "<", "/", ">">>}
\* The bodies of a model listing: an object with two descriptors, the same
\* with white space, objects without "data" and with a null for it, an
\* array, and documents that break off, one of them with a span in it.
Listings ==
    {<<"{", "data:", "[", "a", ",", "b", "]", "}">>,
     <<"{", "data:", " ", "[", "a", ",", " ", "b", "]", "}">>,
     <<"{", "}">>,
     <<"{", "data:", "n", "}">>,
     <<"[", "a", ",", "b", "]">>,
     <<"{", "data:", "[", "a", ",">>,
     <<"{", "data:", "[", "<", ">", "a", "<", "/", ">">>}

\* What requests.request raises: the classes of the exception.
Failures ==
    {{"Timeout", "RequestException"},
     {"Timeout", "ConnectionError", "RequestException"},
     {"SSLError", "ConnectionError", "RequestException"},
     {"ConnectionError", "RequestException"},
     {"RequestException"}}

\* The status of the error Response, by the first except clause that takes
\* the exception (347, 355, 363, 383).
FailureStatus(classes) ==
    IF "Timeout" \in classes THEN 504
    ELSE IF "SSLError" \in classes THEN 502
    ELSE IF "ConnectionError" \in classes THEN 502
    ELSE 502

\* The texts of the error message: str(e) of the exception, or the target
\* URL for a timeout (348, 356, 364, 384).  Either can hold any character.
ErrorTexts == {<<"e">>, <<"e", "\"", "e">>}

\* '{"error": "' + error_msg + '"}'
ErrorBody(error_msg) == <<"{\"error\": \"">> \o error_msg \o <<"\"}">>

\* The answer of the framework to an exception proxy() does not catch.
InternalServerError ==
    [status |-> 500, body |-> <<"Internal Server Error">>, streamed |-> FALSE]

\* A proxy that picks the response path from the body the client sent.
IsStreamAsReceived(body) ==
    TruthyBody(request_json) /\ "stream" \in DOMAIN request_json.obj
                             /\ Truthy(request_json.obj["stream"])

\* is_stream (line 393)
IsStream(body) ==
    TruthyBody(body) /\ "stream" \in DOMAIN body.obj /\ Truthy(body.obj["stream"])

\* The paths of the requests.
ModelListPaths == {"models", "v1/models"}
Paths == ModelListPaths \cup {"v1/chat/completions"}

\* json.loads on the documents of JsonChars.  White space counts for
\* nothing; a document is an object that is empty or has "data" only, an
\* array of descriptors, or a null; the items of an array are descriptors
\* with a comma between them.  ok is false when json.loads raises.
Descriptors == {"a", "b", "id=m1", "id=m2", "id=default"}
NotSpace(c) == c # " "
ItemsOk(xs) ==
    \/ xs = <<>>
    \/ /\ Len(xs) % 2 = 1
       /\ \A i \in 1..Len(xs) :
              IF i % 2 = 1 THEN xs[i] \in Descriptors ELSE xs[i] = ","
ItemsOf(xs) == [i \in 1..((Len(xs) + 1) \div 2) |-> xs[2 * i - 1]]
NotJson == [ok |-> FALSE, kind |-> "", data |-> "", items |-> <<>>]
json_loads(doc) ==
    LET t == SelectSeq(doc, NotSpace)
        n == Len(t)
    IN  IF t = <<"n">>
        THEN [ok |-> TRUE, kind |-> "null", data |-> "", items |-> <<>>]
        ELSE IF t = <<"{", "}">>
        THEN [ok |-> TRUE, kind |-> "object", data |-> "absent", items |-> <<>>]
        ELSE IF t = <<"{", "data:", "n", "}">>
        THEN [ok |-> TRUE, kind |-> "object", data |-> "null", items |-> <<>>]
        ELSE IF n >= 5 /\ Take(t, 3) = <<"{", "data:", "[">>
                /\ Drop(t, n - 2) = <<"]", "}">> /\ ItemsOk(SubSeq(t, 4, n - 2))
        THEN [ok |-> TRUE, kind |-> "object", data |-> "list",
              items |-> ItemsOf(SubSeq(t, 4, n - 2))]
        ELSE IF n >= 2 /\ t[1] = "[" /\ t[n] = "]" /\ ItemsOk(SubSeq(t, 2, n - 1))
        THEN [ok |-> TRUE, kind |-> "array", data |-> "",
              items |-> ItemsOf(SubSeq(t, 2, n - 1))]
        ELSE NotJson

\* json.dumps: ", " between the items and ": " after a key.
Join(items) ==
    IF items = <<>> THEN <<>>
    ELSE [k \in 1..(3 * Len(items) - 2) |->
             IF k % 3 = 1 THEN items[(k + 2) \div 3]
             ELSE IF k % 3 = 2 THEN "," ELSE " "]
json_dumps(value) ==
    IF value.kind = "null" THEN <<"n">>
    ELSE IF value.kind = "array" THEN <<"[">> \o Join(value.items) \o <<"]">>
    ELSE IF value.data = "absent" THEN <<"{", "}">>
    ELSE IF value.data = "null" THEN <<"{", "data:", " ", "n", "}">>
    ELSE <<"{", "data:", " ", "[">> \o Join(value.items) \o <<"]", "}">>

\* pseudo_model (lines 418-424) for a model name
PseudoModel(model_name) ==
    CASE model_name = "m1" -> "id=m1"
      [] model_name = "m2" -> "id=m2"
      [] OTHER -> "id=default"

\* pseudo_models (lines 407-424): one for each entry that starts with model=
PseudoModels(llm_params) ==
    LET entries == SelectSeq(llm_params, IsModelEntry)
    IN  [i \in 1..Len(entries) |-> PseudoModel(entries[i][1][2])]

\* A listing that gives up on a body it cannot extend.
ListModelsOrNothing(decoded, llm_params) ==
    LET models_data == json_loads(decoded)
    IN  IF models_data.ok /\ models_data.kind = "object"
           /\ models_data.data \in {"list", "absent"}
        THEN json_dumps([models_data EXCEPT !.data = "list",
                                            !.items = @ \o PseudoModels(llm_params)])
        ELSE <<>>

\* Lines 401-437: `decoded` after the model list step.  A json.loads that
\* raises leaves it alone (434); so does an extension that raises (436): a
\* "data" that has no extend, a document that is no object.  Without
\* LLM_PARAMS nothing is added, and the document is written anew all the same.
ListModels(decoded, llm_params) ==
    LET models_data == json_loads(decoded)
    IN  IF ~models_data.ok THEN decoded
        ELSE IF llm_params = <<>> THEN json_dumps(models_data)
        ELSE IF models_data.kind = "object" /\ models_data.data = "list"
        THEN json_dumps([models_data EXCEPT !.items = @ \o PseudoModels(llm_params)])
        ELSE IF models_data.kind = "object" /\ models_data.data = "absent"
        THEN json_dumps([models_data EXCEPT !.data = "list",
                                            !.items = PseudoModels(llm_params)])
        ELSE decoded

\* The body of the buffered Response (396-449).
BufferedBody(request_path, content, llm_params, enable, st, et) ==
    LET decoded == Decode(content)
        listed  == IF request_path \in ModelListPaths
                   THEN ListModels(decoded, llm_params) ELSE decoded
    IN  Encode(IF enable THEN ReSub(listed, st, et) ELSE listed)

\* A teardown that leaves the upstream response open.
cleanup_leak(api, n) == [api |-> api, closes |-> n]

\* cleanup_request: the state of g.api_response and the number of close()
\* calls after the teardown.
cleanup_request(api, n) ==
    IF api # "unset" THEN [api |-> "closed", closes |-> n + 1]
    ELSE [api |-> api, closes |-> n]

\* What the generator yields for a chunk (461-469, 478-481): the bytes, and
\* whether it yields at all.
ChunkOutput(enable, r, chunk) ==
    IF enable THEN [bytes |-> r.output, yields |-> r.output # <<>>]
    ELSE [bytes |-> chunk, yields |-> TRUE]

\* Whether the generator calls flush when iter_content is exhausted (461, 473).
FlushesAtEnd(enable, disconnected) == enable /\ ~disconnected

\* Handlers that deliver what the filter retains.
FlushesAlways == TRUE

\* Whether an exception handler of the generator (484-499) calls flush.
FlushesOnError == FALSE

ProxyInit ==
    /\ environ \in Environs
    /\ import_environ = environ
    /\ DEFAULT_THINK_START_TAG = GetEnv(import_environ.THINK_TAG, HardStart)
    /\ DEFAULT_THINK_END_TAG = GetEnv(import_environ.THINK_END_TAG, HardEnd)
    /\ call = NoCall
    /\ handling = Nobody
    /\ path = NotRead
    /\ request_json \in Bodies
    /\ json_body = request_json
    /\ model_specific_config = EmptyDict
    /\ effective_think_start_tag = DEFAULT_THINK_START_TAG
    /\ effective_think_end_tag = DEFAULT_THINK_END_TAG
    /\ enable_think_tag_filtering = FALSE
    /\ pc = "start"
    /\ api_response = "unset"
    /\ closes = 0
    /\ upstream = NoUpstream
    /\ response = NoResponse
    /\ pulled = <<>>
    /\ upstream_end = "open"
    /\ gen = "none"
    /\ client_disconnected = FALSE
    /\ client_out = <<>>
    /\ flush_calls = 0
    /\ torn = FALSE
    /\ start_tag = <<>>
    /\ end_tag = <<>>
    /\ buffer = <<>>
    /\ NoStream

\* A proxy that reads LLM_PARAMS once, when the module is imported.
LlmParamsAtImport(env, at_import) == at_import.LLM_PARAMS

\* os.getenv('LLM_PARAMS') inside proxy() (lines 203, 408): the variable as
\* it is when the request is handled.
LlmParams(env, at_import) == env.LLM_PARAMS

\* Lines 186-331 of proxy(): the override entry, the tags, the flag and the
\* body to send.
Resolve ==
    LET cfg == SpecificConfig(request_json, LlmParams(environ, import_environ))
    IN  /\ model_specific_config' = cfg
        /\ json_body' = AppendToLast(Rewrite(request_json, cfg), cfg)
        /\ effective_think_start_tag' = EffectiveStart(cfg, DEFAULT_THINK_START_TAG)
        /\ effective_think_end_tag' = EffectiveEnd(cfg, DEFAULT_THINK_END_TAG)
        /\ enable_think_tag_filtering' = EnableFiltering(cfg)
        /\ UNCHANGED <<request_json, envvars, call, handling>>

\* proxy(): the lines of append_to_last_user_message raise (286-331), before
\* anything is sent.
ProxyRaises ==
    /\ pc = "start"
    /\ Resolve
    /\ UNCHANGED path
    /\ AppendRaises(json_body', model_specific_config')
    /\ response' = InternalServerError
    /\ pc' = "responded"
    /\ UNCHANGED <<bufvars, api_response, closes, upstream, pulled, upstream_end, gen,
                   client_disconnected, client_out, flush_calls, torn>>

\* proxy(): requests.request raises (334-370, 383-390).
ProxyUnreachable ==
    /\ pc = "start"
    /\ Resolve
    /\ UNCHANGED path
    /\ ~AppendRaises(json_body', model_specific_config')
    /\ \E f \in Failures, error_msg \in ErrorTexts :
         /\ upstream' = [NoUpstream EXCEPT !.failure = f]
         /\ response' = [status |-> FailureStatus(f), body |-> ErrorBody(error_msg),
                         streamed |-> FALSE]
    /\ pc' = "responded"
    /\ UNCHANGED <<bufvars, api_response, closes, pulled, upstream_end, gen,
                   client_disconnected, client_out, flush_calls, torn>>

\* proxy(): upstream answers with a status >= 400 (372-381).  The strict
\* decode of line 374 raises on a body that is not UTF-8; nothing catches
\* that, and the framework answers 500.
ProxyErrorStatus ==
    /\ pc = "start"
    /\ Resolve
    /\ UNCHANGED path
    /\ ~AppendRaises(json_body', model_specific_config')
    /\ \E st \in {404, 500}, content \in Contents :
         /\ upstream' = [status |-> st, content |-> content, failure |-> {}]
         /\ response' = IF Valid(content)
                        THEN [status |-> st, body |-> content, streamed |-> FALSE]
                        ELSE InternalServerError
    /\ api_response' = "open"
    /\ pc' = "responded"
    /\ UNCHANGED <<bufvars, closes, pulled, upstream_end, gen,
                   client_disconnected, client_out, flush_calls, torn>>

\* The statuses below 400 of the upstream.
SuccessStatus == {200, 201}

\* proxy(): the buffered reply (396-453).
ProxyBuffered ==
    /\ pc = "start"
    /\ Resolve
    /\ ~AppendRaises(json_body', model_specific_config')
    /\ ~IsStream(json_body')
    /\ \E request_path \in Paths, content \in Contents \cup Listings,
          status_code \in SuccessStatus :
         /\ path' = request_path
         /\ upstream' = [status |-> status_code, content |-> content, failure |-> {}]
         /\ response' = [status |-> status_code,
                         body |-> BufferedBody(request_path, content,
                                               LlmParams(environ, import_environ),
                                               enable_think_tag_filtering',
                                               TagChars(effective_think_start_tag'),
                                               TagChars(effective_think_end_tag')),
                         streamed |-> FALSE]
    /\ api_response' = "open"
    /\ pc' = "responded"
    /\ UNCHANGED <<bufvars, closes, pulled, upstream_end, gen,
                   client_disconnected, client_out, flush_calls, torn>>

\* proxy(): the streamed reply (454-516): the Response holds the generator,
\* which has not run yet.
ProxyStream ==
    /\ pc = "start"
    /\ Resolve
    /\ UNCHANGED path
    /\ ~AppendRaises(json_body', model_specific_config')
    /\ IsStream(json_body')
    /\ upstream' = [status |-> 200, content |-> <<>>, failure |-> {}]
    /\ response' = [status |-> 200, body |-> <<>>, streamed |-> TRUE]
    /\ api_response' = "open"
    /\ gen' = "fresh"
    /\ pc' = "streaming"
    /\ UNCHANGED <<bufvars, closes, pulled, upstream_end,
                   client_disconnected, client_out, flush_calls, torn>>

\* generate_filtered_response starts: lines 457-458.
GenStart ==
    /\ gen = "fresh"
    /\ start_tag' = TagChars(effective_think_start_tag)
    /\ end_tag' = TagChars(effective_think_end_tag)
    /\ buffer' = <<>>
    /\ gen' = "running"
    /\ UNCHANGED <<harness, envvars, call, handling, reqvars, pc, api_response, closes, upstream,
                   response, pulled, upstream_end, client_disconnected, client_out,
                   flush_calls, torn>>

\* iter_content produces a chunk: one turn of the loop of 462-469 or 480-481.
GenChunk ==
    /\ gen \in {"running", "at_yield"}
    /\ upstream_end = "open"
    /\ Len(pulled) < MaxUp
    /\ \E chunk \in UpChunks :
         LET r == process_chunk(buffer, start_tag, end_tag, chunk)
             o == ChunkOutput(enable_think_tag_filtering, r, chunk)
         IN  /\ pulled' = Append(pulled, chunk)
             /\ buffer' = IF enable_think_tag_filtering THEN r.buffer ELSE buffer
             /\ client_out' = IF o.yields THEN Append(client_out, o.bytes) ELSE client_out
             /\ gen' = IF o.yields THEN "at_yield" ELSE "running"
    /\ UNCHANGED <<start_tag, end_tag, harness, envvars, call, handling, reqvars, pc, api_response,
                   closes, upstream, response, upstream_end, client_disconnected,
                   flush_calls, torn>>

\* iter_content is exhausted: lines 471-477, or the end of the loop of 480.
GenExhausted ==
    /\ gen \in {"running", "at_yield"}
    /\ upstream_end = "open"
    /\ upstream_end' = "exhausted"
    /\ IF FlushesAtEnd(enable_think_tag_filtering, client_disconnected)
       THEN /\ flush_calls' = flush_calls + 1
            /\ buffer' = <<>>
            /\ client_out' = IF flush(buffer) # <<>>
                             THEN Append(client_out, flush(buffer)) ELSE client_out
            /\ gen' = IF flush(buffer) # <<>> THEN "at_final" ELSE "done"
       ELSE /\ gen' = "done"
            /\ UNCHANGED <<flush_calls, buffer, client_out>>
    /\ UNCHANGED <<start_tag, end_tag, harness, envvars, call, handling, reqvars, pc, api_response,
                   closes, upstream, response, pulled, client_disconnected, torn>>

\* The client takes the final chunk; the generator resumes after line 477
\* and returns.
GenFinal ==
    /\ gen = "at_final"
    /\ gen' = "done"
    /\ UNCHANGED <<bufvars, envvars, call, handling, reqvars, pc, api_response, closes, upstream,
                   response, pulled, upstream_end, client_disconnected, client_out,
                   flush_calls, torn>>

\* iter_content raises (ChunkedEncodingError, ConnectionError, another
\* RequestException, anything else): one of the handlers of 484-499.
GenRaise ==
    /\ gen \in {"running", "at_yield"}
    /\ upstream_end = "open"
    /\ upstream_end' = "raised"
    /\ client_disconnected' = TRUE
    /\ IF FlushesOnError
       THEN /\ flush_calls' = flush_calls + 1
            /\ buffer' = <<>>
            /\ client_out' = Append(client_out, flush(buffer))
       ELSE UNCHANGED <<flush_calls, buffer, client_out>>
    /\ gen' = "done"
    /\ UNCHANGED <<start_tag, end_tag, harness, envvars, call, handling, reqvars, pc, api_response,
                   closes, upstream, response, pulled, torn>>

\* A generator that takes GeneratorExit inside its loop and goes on with
\* the next chunk.
DisconnectIgnored ==
    /\ gen \in {"fresh", "at_yield", "at_final"}
    /\ client_disconnected' = (gen # "fresh")
    /\ gen' = IF gen = "at_yield" THEN "running" ELSE "done"
    /\ UNCHANGED <<bufvars, envvars, call, handling, reqvars, pc, api_response, closes, upstream,
                   response, pulled, upstream_end, client_out, flush_calls, torn>>

\* The client goes away.  The server closes the generator: GeneratorExit is
\* raised at the yield it is suspended at and the handler of 484-488 takes
\* it; a generator that has not run yet is closed without running.
Disconnect ==
    /\ gen \in {"fresh", "at_yield", "at_final"}
    /\ client_disconnected' = (gen # "fresh")
    /\ gen' = "done"
    /\ UNCHANGED <<bufvars, envvars, call, handling, reqvars, pc, api_response, closes, upstream,
                   response, pulled, upstream_end, client_out, flush_calls, torn>>

\* The request context ends, after proxy() returned a buffered Response or
\* after the generator of a streamed one finished: cleanup_request runs.
Teardown ==
    /\ ~torn
    /\ \/ pc = "responded"
       \/ pc = "streaming" /\ gen = "done"
    /\ LET c == cleanup_request(api_response, closes)
       IN  api_response' = c.api /\ closes' = c.closes
    /\ torn' = TRUE
    /\ UNCHANGED <<bufvars, envvars, call, handling, reqvars, pc, upstream, response, pulled,
                   upstream_end, gen, client_disconnected, client_out, flush_calls>>

Next ==
    \/ ProxyRaises
    \/ ProxyUnreachable
    \/ ProxyErrorStatus
    \/ ProxyBuffered
    \/ ProxyStream
    \/ GenStart
    \/ GenChunk
    \/ GenExhausted
    \/ GenFinal
    \/ GenRaise
    \/ Disconnect
    \/ Teardown

Spec == ProxyInit /\ [][Next]_vars

\* ---------------------------------------------------------------------
\* A process whose environment changes after the module was imported
\* (os.environ is written, as the tests do with patch.dict) and before the
\* request is handled.
SetEnv ==
    /\ pc = "start"
    /\ environ' \in Environs \ {environ}
    /\ UNCHANGED <<import_environ, DEFAULT_THINK_START_TAG, DEFAULT_THINK_END_TAG,
                   bufvars, reqvars, runvars, call, handling>>

ReloadBodies ==
    {NoBody,
     Object(JStr("m1"), Absent, JList(<<Hello>>)),
     Object(JStr("m1"), JBool(TRUE), Absent),
     Object(Absent, JBool(FALSE), Absent),
     Object(JStr("m1"), Absent, JNull)}

ReloadInit == ProxyInit /\ request_json \in ReloadBodies

ReloadNext == SetEnv \/ Next

SpecReload == ReloadInit /\ [][ReloadNext]_vars

\* The server keeps serving a request it has a reply for: it keeps asking the
\* generator for chunks until it finishes, and ends the request context.
Serve == Teardown \/ GenFinal \/ GenStart \/ GenRaise \/ GenExhausted \/ GenChunk
FairSpec == Spec /\ WF_vars(Serve)

\* ---------------------------------------------------------------------
\* Two requests handled at the same time by one process (threads of the
\* WSGI server).  Everything proxy() and its generator write is a local of
\* the call or lives in the request context g; the module globals and
\* os.environ are only read.  A step of the model is one atomic piece of one
\* call: proxy() up to its return, the creation of the StreamBuffer, one
\* turn of the iter_content loop, the end of the loop.
Requests == {1, 2}

\* LLM_PARAMS of the process: filtering for m1 with its own tags, filtering
\* for m2 with the default tags, and stream=true for requests with no model.
PairParams == << <<<<"model", "m1">>, <<"think_tag_start", "/">>,
                   <<"think_tag_end", ">">>, <<"enable_think_tag_filtering", "true">>>>,
                 <<<<"model", "m2">>, <<"enable_think_tag_filtering", "true">>>>,
                 <<<<"model", "default">>, <<"stream", "true">>>> >>

\* The bodies of the two clients: streamed requests for m1 and m2, a request
\* with no model, and a request for m1 that is not streamed.
PairBodies ==
    {Object(JStr("m1"), JBool(TRUE), Absent),
     Object(JStr("m2"), JBool(TRUE), Absent),
     Object(Absent, Absent, JList(<<Hello>>)),
     Object(JStr("m1"), Absent, Absent)}

\* The upstream bodies of the replies that are not streamed.
PairContents == {<<"/", "<", ">">>, <<"C3", "A9">>}

\* proxy() has been entered with the body b and has done nothing yet.
Received(b) ==
    [phase |-> "received", request |-> b, json_body |-> NoBody,
     start |-> HardStart, end |-> HardEnd, enable |-> FALSE,
     constructed |-> FALSE, buffer |-> <<>>, pulled |-> <<>>, out |-> <<>>]

PairInit ==
    /\ start_tag = <<>>
    /\ end_tag = <<>>
    /\ buffer = <<>>
    /\ NoStream
    /\ environ = [LLM_PARAMS |-> PairParams, THINK_TAG |-> Unset, THINK_END_TAG |-> Unset]
    /\ import_environ = environ
    /\ DEFAULT_THINK_START_TAG = GetEnv(import_environ.THINK_TAG, HardStart)
    /\ DEFAULT_THINK_END_TAG = GetEnv(import_environ.THINK_END_TAG, HardEnd)
    /\ NotServing
    /\ call = NoCall
    /\ handling \in [Requests -> {Received(b) : b \in PairBodies}]

\* A process whose generators all use the StreamBuffer of the first request.
BufferOfFirst(h, i) == h[1].buffer

\* The buffer the generator of request i gives its chunks to: the local of
\* line 457.
BufferOf(h, i) == h[i].buffer

\* proxy() of request i, from its entry to its return (186-453, 454-516).
PairProxy(i) ==
    /\ handling[i].phase = "received"
    /\ LET h    == handling[i]
           cfg  == SpecificConfig(h.request, LlmParams(environ, import_environ))
           sent == AppendToLast(Rewrite(h.request, cfg), cfg)
           st   == EffectiveStart(cfg, DEFAULT_THINK_START_TAG)
           et   == EffectiveEnd(cfg, DEFAULT_THINK_END_TAG)
           on   == EnableFiltering(cfg)
           set  == [h EXCEPT !.json_body = sent, !.start = st, !.end = et,
                             !.enable = on]
       IN  /\ ~AppendRaises(sent, cfg)
           /\ IF IsStream(sent)
              THEN handling' = [handling EXCEPT ![i] = [set EXCEPT !.phase = "streaming"]]
              ELSE \E content \in PairContents :
                     handling' = [handling EXCEPT ![i] =
                        [set EXCEPT !.phase = "replied",
                                    !.pulled = <<content>>,
                                    !.out = <<BufferedBody("v1/chat/completions", content,
                                                           LlmParams(environ, import_environ), on,
                                                           TagChars(st), TagChars(et))>>]]
    /\ UNCHANGED <<bufvars, envvars, reqvars, runvars, call>>

\* The generator of request i starts: lines 457-458.
PairGenStart(i) ==
    /\ handling[i].phase = "streaming"
    /\ ~handling[i].constructed
    /\ handling' = [handling EXCEPT ![i].constructed = TRUE, ![i].buffer = <<>>]
    /\ UNCHANGED <<bufvars, envvars, reqvars, runvars, call>>

\* iter_content of request i produces a chunk: one turn of the loop of
\* 462-469 or 480-481.
PairGenChunk(i) ==
    /\ handling[i].phase = "streaming"
    /\ handling[i].constructed
    /\ Len(handling[i].pulled) < MaxPair
    /\ \E chunk \in UpChunks :
         LET h == handling[i]
             r == process_chunk(BufferOf(handling, i), TagChars(h.start),
                                TagChars(h.end), chunk)
             o == ChunkOutput(h.enable, r, chunk)
         IN  handling' = [handling EXCEPT
                 ![i].pulled = Append(h.pulled, chunk),
                 ![i].buffer = IF h.enable THEN r.buffer ELSE h.buffer,
                 ![i].out = IF o.yields THEN Append(h.out, o.bytes) ELSE h.out]
    /\ UNCHANGED <<bufvars, envvars, reqvars, runvars, call>>

\* iter_content of request i is exhausted: lines 471-477, or the end of the
\* loop of 480; the generator returns and its StreamBuffer goes with it.
PairGenExhausted(i) ==
    /\ handling[i].phase = "streaming"
    /\ handling[i].constructed
    /\ LET h   == handling[i]
           fin == flush(BufferOf(handling, i))
       IN  handling' = [handling EXCEPT
               ![i].phase = "ended",
               ![i].buffer = <<>>,
               ![i].out = IF FlushesAtEnd(h.enable, FALSE) /\ fin # <<>>
                          THEN Append(h.out, fin) ELSE h.out]
    /\ UNCHANGED <<bufvars, envvars, reqvars, runvars, call>>

PairNext ==
    \E i \in Requests :
        \/ PairProxy(i)
        \/ PairGenStart(i)
        \/ PairGenChunk(i)
        \/ PairGenExhausted(i)

SpecPair == PairInit /\ [][PairNext]_vars

\* ====================================================== claims: StreamBuffer
\* process_chunk of the whole stream as one chunk, then flush.
OneShot(st, et, bs) ==
    LET r == process_chunk(<<>>, st, et, bs) IN r.output \o flush(r.buffer)

\* The characters of t marked "E", in order.
Kept(t, marks) ==
    LET pick == [i \in 1..Len(marks) |-> IF marks[i] = "E" THEN t[i] ELSE ""]
        IsChar(c) == c # ""
    IN  SelectSeq(pick, IsChar)

\* The maximal runs of discarded characters, as pairs <<first, last>>.
RemovedRuns(marks) ==
    {r \in (1..Len(marks)) \X (1..Len(marks)) :
        /\ r[1] <= r[2]
        /\ \A k \in r[1]..r[2] : marks[k] = "R"
        /\ (r[1] = 1 \/ marks[r[1] - 1] = "E")
        /\ (r[2] = Len(marks) \/ marks[r[2] + 1] = "E")}

\* x is a start tag, then any text, then an end tag.
IsSpan(x, st, et) ==
    /\ Len(x) >= Len(st) + Len(et)
    /\ Take(x, Len(st)) = st
    /\ Drop(x, Len(x) - Len(et)) = et

\* x is a start tag, then the text up to the first end tag after it.
IsFlatSpan(x, st, et) ==
    /\ IsSpan(x, st, et)
    /\ Find(x, et, Len(st)) = Len(x) - Len(et)

RECURSIVE SpanSeq(_, _, _)
SpanSeq(x, st, et) ==
    \/ x = <<>>
    \/ \E k \in 1..Len(x) : IsSpan(Take(x, k), st, et) /\ SpanSeq(Drop(x, k), st, et)

RECURSIVE FlatSpanSeq(_, _, _)
FlatSpanSeq(x, st, et) ==
    \/ x = <<>>
    \/ \E k \in 1..Len(x) :
          IsFlatSpan(Take(x, k), st, et) /\ FlatSpanSeq(Drop(x, k), st, et)

\* C1: chunk invariance.  When the stream is the encoding of a text T and
\* every chunk boundary is a character boundary, the outputs of process_chunk
\* followed by the output of flush are the buffered path's removal applied to
\* T, for every tag pair.
C1_ChunkInvariance ==
    (flushed /\ Valid(fed) /\ text = Decode(fed))
        => emitted = Encode(ReSub(Decode(fed), start_tag, end_tag))

\* C2: no data loss.  The characters of a well-formed input stream are the
\* characters process_chunk sees; those not yet returned or discarded are the
\* buffer, verbatim; the bytes returned are the characters not discarded, in
\* order; what is discarded is made of complete start...end spans; after
\* flush the buffer is empty; and a text without a complete span comes out
\* unchanged.
C2_NoDataLoss ==
    Valid(fed) =>
        /\ text = Decode(fed)
        /\ buffer = Drop(text, Len(fate))
        /\ emitted = Encode(Kept(text, fate))
        /\ \A r \in RemovedRuns(fate) :
              SpanSeq(SubSeq(text, r[1], r[2]), start_tag, end_tag)
        /\ flushed => buffer = <<>>
        /\ (flushed /\ ReSub(Decode(fed), start_tag, end_tag) = Decode(fed))
              => emitted = fed

\* C6: Unicode safety.  When a chunk boundary falls inside a multi-byte
\* character (the chunks decoded one by one are not the stream decoded as a
\* whole), the output of the stream is still the output of the same bytes
\* given as one chunk.
C6_UnicodeSafe ==
    (flushed /\ text # Decode(fed)) => emitted = OneShot(start_tag, end_tag, fed)

\* C7: flat matching.  Every discarded stretch is made of spans that each
\* begin with a start tag and end with the first end tag after that start
\* tag; a text given as one chunk is filtered to what is left when each start
\* tag is paired with the first end tag after it and the scan resumes after
\* that end tag; with the default tags, start start end end is filtered to
\* the second end tag.
C7_FlatMatching ==
    /\ \A r \in RemovedRuns(fate) :
          FlatSpanSeq(SubSeq(text, r[1], r[2]), start_tag, end_tag)
    /\ (flushed /\ nchunks = 1) => emitted = Encode(ReSub(text, start_tag, end_tag))
    /\ OneShot(DefaultTags.s, DefaultTags.e,
               <<"<", ">", "/", "<", ">", "/", "<", "/", ">", "/", "<", "/", ">">>)
          = <<"/", "<", "/", ">">>

\* C8: release invariant.  No occurrence of the start tag in the input begins
\* in a character already returned to the caller and reaches into the text
\* still retained.
C8_ReleaseInvariant ==
    \A i \in 1..Len(fate) :
        fate[i] = "E" =>
            ~ /\ i + Len(start_tag) - 1 > Len(fate)
              /\ i + Len(start_tag) - 1 <= Len(text)
              /\ \A j \in 1..Len(start_tag) : text[i + j - 1] = start_tag[j]

\* ========================================================= claims: proxy
\* bytes of a sequence of chunks
RECURSIVE Flatten(_)
Flatten(chunks) ==
    IF chunks = <<>> THEN <<>> ELSE chunks[1] \o Flatten(Tail(chunks))

\* What a StreamBuffer yields for a sequence of chunks, and what it retains.
RECURSIVE Replay(_, _, _, _)
Replay(chunks, buf, st, et) ==
    IF chunks = <<>> THEN [out |-> <<>>, buffer |-> buf]
    ELSE LET r    == process_chunk(buf, st, et, chunks[1])
             rest == Replay(Tail(chunks), r.buffer, st, et)
         IN  [out |-> (IF r.output # <<>> THEN <<r.output>> ELSE <<>>) \o rest.out,
              buffer |-> rest.buffer]

\* The resolved directives set enable_think_tag_filtering to true.
SetsFiltering(cfg) ==
    /\ "enable_think_tag_filtering" \in DOMAIN cfg
    /\ cfg["enable_think_tag_filtering"] = JBool(TRUE)

\* C3: once g.api_response is set, it is eventually closed on every exit
\* path of the request (buffered return, status >= 400, end of a stream,
\* upstream error in a stream, client disconnect in a stream), and it is
\* closed exactly once.
C3_ClosedExactlyOnce ==
    /\ [](closes <= 1)
    /\ [](api_response = "unset" => closes = 0)
    /\ [](api_response = "open" => <>(api_response = "closed" /\ closes = 1))

\* A streamed reply the client left in the middle of, torn down.
C3_Witness ==
    /\ torn
    /\ closes = 1
    /\ client_disconnected
    /\ upstream_end = "open"
    /\ pulled # <<>>

C5_StreamFilteredWithoutDirective ==
    (/\ pc = "streaming"
     /\ "enable_think_tag_filtering" \notin DOMAIN model_specific_config
     /\ upstream_end = "exhausted"
     /\ gen = "done") =>
        Flatten(client_out) =
            Encode(ReSub(Decode(Flatten(pulled)),
                         TagChars(effective_think_start_tag),
                         TagChars(effective_think_end_tag)))

\* C9: in a filtered stream flush is called once, when iter_content is
\* exhausted and after the last process_chunk; its output is the last thing
\* the client gets.  When iter_content raises or the client goes away first,
\* flush is not called and the retained text stays in the filter.
C9_FlushOnceAtEnd ==
    (pc = "streaming" /\ enable_think_tag_filtering /\ gen \notin {"none", "fresh"}) =>
        LET rp    == Replay(pulled, <<>>, start_tag, end_tag)
            final == flush(rp.buffer)
        IN  /\ flush_calls = (IF upstream_end = "exhausted" THEN 1 ELSE 0)
            /\ client_out = rp.out \o (IF flush_calls = 1 /\ final # <<>>
                                       THEN <<final>> ELSE <<>>)
            /\ flush_calls = 0 => buffer = rp.buffer

\* The flush output came after the output of a process_chunk call.
C9_Witness ==
    /\ pc = "streaming"
    /\ enable_think_tag_filtering
    /\ gen = "done"
    /\ flush_calls = 1
    /\ Len(client_out) >= 2
    /\ client_out[Len(client_out)] =
           flush(Replay(pulled, <<>>, start_tag, end_tag).buffer)

\* The entry the lookup is said to take: the named model's when the table
\* has it, `default` when the body is an object without a model field.
ClaimedEntry(body, llm_params) ==
    LET configs == ModelConfigs(llm_params)
    IN  IF ~IsDict(body) THEN NoEntry
        ELSE IF "model" \in DOMAIN body.obj
        THEN IF body.obj["model"].t = "str" /\ body.obj["model"].v \in DOMAIN configs
             THEN [found |-> TRUE, name |-> body.obj["model"].v]
             ELSE NoEntry
        ELSE IF "default" \in DOMAIN configs
        THEN [found |-> TRUE, name |-> "default"]
        ELSE NoEntry

\* C10: a body that names a model of the override table gets that entry; a
\* JSON object body without a model field (an empty object too) gets the
\* `default` entry when there is one; every other request gets no directive:
\* filtering off and the global default tags.
C10_OverrideLookup ==
    pc # "start" =>
        LET e == ClaimedEntry(request_json, environ.LLM_PARAMS)
        IN  IF e.found
            THEN model_specific_config = ModelConfigs(environ.LLM_PARAMS)[e.name]
            ELSE /\ model_specific_config = EmptyDict
                 /\ ~enable_think_tag_filtering
                 /\ effective_think_start_tag = DEFAULT_THINK_START_TAG
                 /\ effective_think_end_tag = DEFAULT_THINK_END_TAG

\* C11: each effective tag is, on its own, the tag of the resolved entry when
\* the entry has the key, else the global one (THINK_TAG / THINK_END_TAG),
\* and the hardcoded one only when the global one is unset.
C11_TagPrecedence ==
    pc # "start" =>
        /\ effective_think_start_tag =
               IF "think_tag_start" \in DOMAIN model_specific_config
               THEN model_specific_config["think_tag_start"].v
               ELSE IF environ.THINK_TAG # Unset THEN environ.THINK_TAG ELSE HardStart
        /\ effective_think_end_tag =
               IF "think_tag_end" \in DOMAIN model_specific_config
               THEN model_specific_config["think_tag_end"].v
               ELSE IF environ.THINK_END_TAG # Unset THEN environ.THINK_END_TAG
               ELSE HardEnd

\* The start tag comes from the entry and the end tag from the environment.
C11_Witness ==
    /\ pc # "start"
    /\ "think_tag_start" \in DOMAIN model_specific_config
    /\ "think_tag_end" \notin DOMAIN model_specific_config
    /\ environ.THINK_TAG = "/"
    /\ effective_think_start_tag = "<>"
    /\ effective_think_end_tag = ">"

\* The five control keys.
FiveControlKeys == {"think_tag_start", "think_tag_end", "enable_think_tag_filtering",
                    "upstream_model_name", "append_to_last_user_message"}

\* The resolved entry renames the model / has a string to append.
Renames == "upstream_model_name" \in DOMAIN model_specific_config
Appends ==
    /\ "append_to_last_user_message" \in DOMAIN model_specific_config
    /\ model_specific_config["append_to_last_user_message"].v # ""

\* C12: the body sent upstream is the inbound body except that every
\* resolved directive that is no control key is a top-level field with its
\* converted value (replacing an inbound field of that name), `model` is
\* replaced under upstream_model_name and `messages` changes under
\* append_to_last_user_message.  No control key of the entry is forwarded,
\* every other field is as it came, and without an entry nothing changes.
C12_BodyFrame ==
    pc # "start" =>
        LET cfg == model_specific_config
            fwd == DOMAIN cfg \ FiveControlKeys
        IN  /\ json_body.json = request_json.json
            /\ DOMAIN json_body.obj =
                   DOMAIN request_json.obj \cup fwd
                   \cup (IF Renames THEN {"model"} ELSE {})
                   \cup (IF Appends THEN {"messages"} ELSE {})
            /\ \A k \in DOMAIN json_body.obj :
                   IF k \in fwd THEN json_body.obj[k] = cfg[k]
                   ELSE IF k = "model" /\ Renames
                   THEN json_body.obj[k] = cfg["upstream_model_name"]
                   ELSE IF k = "messages" /\ Appends THEN TRUE
                   ELSE json_body.obj[k] = request_json.obj[k]
            /\ cfg = EmptyDict => json_body = request_json

\* A directive replaced the field the client sent; the messages went
\* upstream as they came.
C12_Witness ==
    /\ pc # "start"
    /\ "stream" \in DOMAIN request_json.obj
    /\ request_json.obj["stream"] = JBool(FALSE)
    /\ json_body.obj["stream"] = JBool(TRUE)
    /\ "messages" \in DOMAIN json_body.obj
    /\ json_body.obj["messages"] = request_json.obj["messages"]

\* C13: under upstream_model_name the `model` sent upstream is that value,
\* and the lookup uses the name the client sent: a request that names a
\* model that is no key of the table (the upstream id itself, say) gets no
\* directive.
C13_UpstreamModelName ==
    pc # "start" =>
        /\ Renames =>
               /\ json_body.obj["model"] = model_specific_config["upstream_model_name"]
               /\ ("model" \in DOMAIN request_json.obj /\ request_json.obj["model"].v # "")
                      => /\ request_json.obj["model"].v
                                \in DOMAIN ModelConfigs(environ.LLM_PARAMS)
                         /\ model_specific_config =
                                ModelConfigs(environ.LLM_PARAMS)[request_json.obj["model"].v]
        /\ (/\ IsDict(request_json)
            /\ "model" \in DOMAIN request_json.obj
            /\ request_json.obj["model"].v # ""
            /\ request_json.obj["model"].v \notin DOMAIN ModelConfigs(environ.LLM_PARAMS))
               => model_specific_config = EmptyDict /\ json_body = request_json

\* The model was renamed on the way upstream.
C13_Witness ==
    /\ pc # "start"
    /\ Renames
    /\ request_json.obj["model"] = JStr("m1")
    /\ json_body.obj["model"] = JStr("m2")

\* C14: what a non-empty append_to_last_user_message does to the messages.
\* None: one new user message with the string.  Last message of role user:
\* string content gets the string at its end; list content gets it at the
\* end of its last text part, or as a new text part when it has none; any
\* other content becomes the string.  Last message of another role: a new
\* user message after it.  The messages before the last stay as they are
\* and the list grows by at most one.
C14_AppendToLastUserMessage ==
    (pc # "start" /\ Appends) =>
        LET cs  == TextOf(model_specific_config["append_to_last_user_message"].v)
            inbound == GetOr(request_json.obj, "messages", JList(<<>>))
            old == IF inbound.t = "list" THEN inbound.v ELSE <<>>
            sent == json_body.obj["messages"]
            new == IF sent.t = "list" THEN sent.v ELSE <<>>
            n   == Len(old)
            new_message == UserMessage(JText(cs))
        IN  /\ sent.t = "list"
            /\ Len(new) \in {n, n + 1}
            /\ \A i \in 1..(n - 1) : new[i] = old[i]
            /\ n = 0 => new = <<new_message>>
            /\ (n > 0 /\ old[n].role # "user") => new = Append(old, new_message)
            /\ (n > 0 /\ old[n].role = "user") =>
                   /\ Len(new) = n
                   /\ new[n].role = "user"
                   /\ old[n].content.t = "str" =>
                          new[n].content = JText(old[n].content.v \o cs)
                   /\ old[n].content.t \notin {"str", "list"} =>
                          new[n].content = JText(cs)
                   /\ old[n].content.t = "list" =>
                          LET ps == old[n].content.v
                              qs == new[n].content.v
                              at == {i \in 1..Len(ps) : ps[i].type = "text"}
                          IN  /\ new[n].content.t = "list"
                              /\ at = {} => qs = Append(ps, TextPart(cs))
                              /\ at # {} =>
                                     /\ Len(qs) = Len(ps)
                                     /\ \A i \in 1..Len(ps) :
                                            IF i \in at /\ \A j \in at : j <= i
                                            THEN qs[i] = TextPart(ps[i].text \o cs)
                                            ELSE qs[i] = ps[i]

\* The entries of the override string that start with model=<name>, and
\* the key=value fields after the first field of an entry.
EntriesOf(name) ==
    {i \in 1..Len(environ.LLM_PARAMS) :
        LET e == environ.LLM_PARAMS[i]
        IN  e # <<>> /\ Len(e[1]) = 2 /\ e[1][1] = "model" /\ e[1][2] = name}
FieldsOf(i) ==
    LET e == environ.LLM_PARAMS[i]
    IN  {e[j] : j \in {q \in 2..Len(e) : Len(e[q]) = 2}}

\* C15: an entry of the override string that does not start with model= is
\* dropped and the parse goes on: a valid entry before or after it is in the
\* table with all its directives and is applied to a request for its model.
C15_MalformedEntrySkipped ==
    (/\ pc # "start"
     /\ IsDict(request_json)
     /\ "model" \in DOMAIN request_json.obj
     /\ Cardinality(EntriesOf(request_json.obj["model"].v)) = 1) =>
        LET i == CHOOSE i \in EntriesOf(request_json.obj["model"].v) : TRUE
        IN  /\ DOMAIN model_specific_config = {f[1] : f \in FieldsOf(i)}
            /\ \A f \in FieldsOf(i) :
                   /\ f[1] \in RawKeys => model_specific_config[f[1]] = JStr(f[2])
                   /\ f[1] \notin FiveControlKeys =>
                          /\ f[1] \in DOMAIN json_body.obj
                          /\ json_body.obj[f[1]] = model_specific_config[f[1]]

\* The entry after the dropped ones was applied.
C15_Witness ==
    /\ pc # "start"
    /\ environ.LLM_PARAMS = Skipped
    /\ IsDict(request_json)
    /\ "model" \in DOMAIN request_json.obj
    /\ request_json.obj["model"] = JStr("m2")
    /\ json_body.obj["top_k"] = JNum("int", "7")
    /\ effective_think_start_tag = "/"

\* The bytes are a JSON object with one member, "error", whose value is a
\* string: between the quotes of the value there is no bare quote and no
\* backslash.
IsErrorJson(body) ==
    /\ Len(body) >= 2
    /\ body[1] = "{\"error\": \""
    /\ body[Len(body)] = "\"}"
    /\ \A i \in 2..(Len(body) - 1) : body[i] \notin {"\"", "\\"}

\* C16: when the upstream response cannot be obtained the client gets a
\* JSON error body and a status by cause: 504 for a timeout (also for one
\* that is a connection error too), 502 for a TLS failure, a connection
\* failure and any other request exception; nothing is streamed.
C16_UpstreamFailure ==
    upstream.failure # {} =>
        /\ response.status = (IF "Timeout" \in upstream.failure THEN 504 ELSE 502)
        /\ IsErrorJson(response.body)
        /\ ~response.streamed
        /\ gen = "none"
        /\ client_out = <<>>
        /\ api_response = "unset"

\* C17: an upstream answer with a status >= 400 goes to the client as it
\* is, status and body, in one buffered response: not filtered, not streamed,
\* not augmented, also when the request asked for a stream and filtering is
\* enabled for the model.
C17_ErrorStatusPassthrough ==
    upstream.status >= 400 =>
        /\ response.status = upstream.status
        /\ response.body = upstream.content
        /\ ~response.streamed
        /\ gen = "none"
        /\ client_out = <<>>

\* The reply to a model list request that the upstream answered with 200.
ListingReply ==
    /\ pc # "start"
    /\ path \in ModelListPaths
    /\ upstream.status \in SuccessStatus
    /\ ~response.streamed

\* The names the override configuration declares.
DeclaredNames ==
    {environ.LLM_PARAMS[i][1][2] :
        i \in {j \in 1..Len(environ.LLM_PARAMS) : IsModelEntry(environ.LLM_PARAMS[j])}}

\* C18: a model list whose body is a JSON object comes back with the
\* descriptors of the upstream unchanged and in their order, and after them
\* exactly one descriptor for each model name LLM_PARAMS declares.
C18_ListingAugmented ==
    LET up  == json_loads(Decode(upstream.content))
        out == json_loads(Decode(response.body))
        n   == Len(up.items)
        added == SubSeq(out.items, n + 1, Len(out.items))
    IN  (ListingReply /\ up.ok /\ up.kind = "object" /\ up.data \in {"list", "absent"})
        => /\ out.ok /\ out.kind = "object"
           /\ (DeclaredNames # {} \/ up.data = "list") => out.data = "list"
           /\ Len(out.items) >= n
           /\ Take(out.items, n) = up.items
           /\ Len(added) = Cardinality(DeclaredNames)
           /\ {added[i] : i \in 1..Len(added)}
                 = {PseudoModel(name) : name \in DeclaredNames}

\* The upstream body of a model list that is no JSON, or is JSON that cannot
\* take a `data` array.
CannotTakeData ==
    LET up == json_loads(Decode(upstream.content))
    IN  ~up.ok \/ ~(up.kind = "object" /\ up.data \in {"list", "absent"})

\* C19 as stated: such a body comes back as it was decoded, with the status
\* of the upstream, and the request does not fail.
C19_ListingUnmodified ==
    (ListingReply /\ CannotTakeData)
        => /\ response.body = Encode(Decode(upstream.content))
           /\ response.status = upstream.status

\* C19: a model list body that is no JSON, or cannot take a `data` array,
\* comes back with the status of the upstream and the request does not fail;
\* the body is the decoded one, written anew by json.dumps when it is JSON
\* and LLM_PARAMS is empty, and without its think spans when the filtering is
\* on for the request.
C19_ListingPassedThrough ==
    LET decoded == Decode(upstream.content)
        up      == json_loads(decoded)
        passed  == IF up.ok /\ environ.LLM_PARAMS = <<>> THEN json_dumps(up)
                   ELSE decoded
    IN  (ListingReply /\ CannotTakeData)
        => /\ response.status = upstream.status
           /\ response # InternalServerError
           /\ ~enable_think_tag_filtering => response.body = Encode(passed)
           /\ enable_think_tag_filtering
                => response.body = Encode(ReSub(passed, TagChars(effective_think_start_tag),
                                                TagChars(effective_think_end_tag)))

\* A model list that breaks off is answered while LLM_PARAMS declares models.
C19_Witness ==
    /\ ListingReply
    /\ ~json_loads(Decode(upstream.content)).ok
    /\ environ.LLM_PARAMS # <<>>
    /\ response.status = 201
    /\ response.body = upstream.content

\* C20: convert_param_value returns for every key and raw value, by the
\* first rule that applies: an empty raw value or a spelling of null gives
\* null, whatever the key; a key that is no generation parameter gives the
\* raw value as a string; a boolean key gives true for a spelling of true
\* and false for anything else; an integer or float key gives the number
\* when the raw value parses, and the raw value unchanged when it does not.
C20_ConvertRules ==
    LET k   == call.key
        raw == call.value
        got == call.result
    IN  call.returned =>
          IF raw \in {"", "null", "NULL", "Null"} THEN got = JNull
          ELSE IF k \in {"stop", "think_tag_start"} THEN got = [t |-> "str", v |-> raw]
          ELSE IF k \in {"echo", "stream"}
               THEN got = JBool(raw \in {"true", "TRUE", "True"})
          ELSE IF k \in {"top_k", "seed"}
               THEN IF raw \in {"7", "0"} THEN got = [t |-> "int", v |-> raw]
                    ELSE got = [t |-> "str", v |-> raw]
          ELSE IF raw = "0.5" THEN got = [t |-> "float", v |-> "0.5"]
               ELSE IF raw = "7" THEN got = [t |-> "float", v |-> "7.0"]
               ELSE IF raw = "0" THEN got = [t |-> "float", v |-> "0.0"]
               ELSE got = [t |-> "str", v |-> raw]

\* An integer key with a raw value that is no integer: the call returns the
\* raw value.
C20_Witness ==
    /\ call.returned
    /\ call.key = "top_k"
    /\ call.value = "0.5"
    /\ call.result = [t |-> "str", v |-> "0.5"]

\* ============================================ claims: StreamBuffer states
\* A process_chunk call has returned and flush has not been called.
AfterChunk == nchunks > 0 /\ ~flushed /\ ~hung

\* The two states of the retained buffer.
SCANNING == Find(buffer, start_tag, 0) = -1
TAG_OPEN ==
    /\ Len(buffer) >= Len(start_tag)
    /\ Take(buffer, Len(start_tag)) = start_tag
    /\ Find(buffer, end_tag, 0) = -1

\* C23: after every process_chunk call that returns, the buffer holds no
\* start tag, or it begins with the start tag and holds no end tag; it never
\* holds a start tag with an end tag after it.
C23_BufferStates ==
    AfterChunk =>
        /\ SCANNING \/ TAG_OPEN
        /\ \A i \in 0..Len(buffer) :
              Find(buffer, start_tag, i) # -1
                => Find(buffer, end_tag, Find(buffer, start_tag, i) + Len(start_tag)) = -1

\* A call returned the text before a start tag and kept the open tag with
\* what follows it.
C23_Witness ==
    /\ AfterChunk
    /\ TAG_OPEN
    /\ start_tag = DefaultTags.s
    /\ emitted # <<>>
    /\ Len(buffer) > Len(start_tag)

\* The marks of the process_chunk call of this step, the characters it
\* emitted after the last span it discarded, and the buffer its last
\* iteration looked at.
CallMarks == SubSeq(fate', Len(fate) + 1, Len(fate'))
LastDiscard ==
    LET at == {i \in 1..Len(CallMarks) : CallMarks[i] = "R"}
    IN  IF at = {} THEN 0 ELSE CHOOSE i \in at : \A j \in at : j <= i
TailEmitted == Len(CallMarks) - LastDiscard
LastLooked == SubSeq(text', Len(text') - Len(buffer') - TailEmitted + 1, Len(text'))

\* C24: when a process_chunk call ends with no start tag in the buffer, a
\* buffer of more than 1024 characters is cut to its last 1024 and what was
\* before them is returned, and a shorter one is kept whole and nothing of it
\* is returned; flush returns what is retained.
C24_RetentionThreshold ==
    [][/\ (nchunks' = nchunks + 1 /\ ~hung' /\ Find(buffer', start_tag, 0) = -1)
            => /\ Len(LastLooked) > KEEP
                    => /\ buffer' = SubSeq(LastLooked, Len(LastLooked) - KEEP + 1,
                                           Len(LastLooked))
                       /\ TailEmitted = Len(LastLooked) - KEEP
                       /\ SubSeq(emitted', Len(emitted') - Len(Encode(Take(LastLooked, TailEmitted))) + 1,
                                 Len(emitted'))
                            = Encode(Take(LastLooked, TailEmitted))
               /\ Len(LastLooked) <= KEEP
                    => /\ buffer' = LastLooked
                       /\ TailEmitted = 0
       /\ (flushed' /\ ~flushed) => emitted' = emitted \o Encode(buffer)
      ]_vars

\* A buffer of 1025 characters without a start tag: one is returned and
\* 1024 are retained.
C24_Witness ==
    /\ AfterChunk
    /\ SCANNING
    /\ Len(buffer) = KEEP
    /\ Len(text) = KEEP + 1
    /\ emitted = <<text[1]>>

\* Where the open start tag of a text begins (0-based): the start tag that
\* is left when each start tag before it is paired with the first end tag
\* after it; -1 when no start tag is open.
RECURSIVE OpenAt(_, _, _)
OpenAt(t, st, et) ==
    LET i == Find(t, st, 0)
        j == IF i = -1 THEN -1 ELSE Find(t, et, i + Len(st))
    IN  IF i = -1 THEN -1
        ELSE IF j = -1 THEN i
        ELSE LET rest == OpenAt(Drop(t, j + Len(et)), st, et)
             IN  IF rest = -1 THEN -1 ELSE j + Len(et) + rest

\* C25: while the stream holds a start tag that no end tag has followed,
\* what has been returned is the text before that start tag, without its
\* spans, and the buffer is everything from that start tag on.
C25_OpenTagRetained ==
    LET p == OpenAt(text, start_tag, end_tag)
    IN  (AfterChunk /\ start_tag # <<>> /\ end_tag # <<>> /\ p # -1)
        => /\ buffer = Drop(text, p)
           /\ emitted = Encode(ReSub(Take(text, p), start_tag, end_tag))

\* C28: every process_chunk call returns, whatever the chunk, the buffer and
\* the tag pair, an empty start or end tag included: no iteration of its loop
\* goes on to the next with the buffer as long as it found it.
C28_ProcessChunkTerminates == ~hung

\* ================================================ claims: configuration
\* C22 as stated: a request is resolved with the environment as it is when
\* the request is handled, the override string and the global tags alike.
C22_EnvironmentReread ==
    pc # "start" =>
        /\ model_specific_config = SpecificConfig(request_json, environ.LLM_PARAMS)
        /\ effective_think_start_tag =
               EffectiveStart(model_specific_config, GetEnv(environ.THINK_TAG, HardStart))
        /\ effective_think_end_tag =
               EffectiveEnd(model_specific_config, GetEnv(environ.THINK_END_TAG, HardEnd))

\* C22: a request is resolved with LLM_PARAMS as it is when the request is
\* handled; the global tags are those THINK_TAG and THINK_END_TAG had when
\* the module was imported, whatever they are now.
C22_ParamsRereadTagsAtImport ==
    pc # "start" =>
        /\ model_specific_config = SpecificConfig(request_json, environ.LLM_PARAMS)
        /\ effective_think_start_tag =
               EffectiveStart(model_specific_config,
                              GetEnv(import_environ.THINK_TAG, HardStart))
        /\ effective_think_end_tag =
               EffectiveEnd(model_specific_config,
                            GetEnv(import_environ.THINK_END_TAG, HardEnd))

\* A request for m1 resolved after LLM_PARAMS got an entry for m1 and the
\* global tags were set: the entry applies, the tags are the old ones.
C22_Witness ==
    /\ pc # "start"
    /\ import_environ = [LLM_PARAMS |-> <<>>, THINK_TAG |-> Unset, THINK_END_TAG |-> Unset]
    /\ environ = [LLM_PARAMS |-> OnlyFilter, THINK_TAG |-> "/", THINK_END_TAG |-> ">"]
    /\ enable_think_tag_filtering
    /\ effective_think_start_tag = HardStart

\* ====================================================== claims: streaming
\* C26: once the generator of a streamed reply has taken the cancellation,
\* no chunk is pulled from the upstream, nothing is processed or flushed and
\* nothing is given to the client; the generator has ended by returning, and
\* the reply keeps the status it had.
C26_NothingAfterDisconnect ==
    /\ [](client_disconnected => gen = "done" /\ response.streamed /\ response.status = 200)
    /\ [][client_disconnected
            => /\ client_disconnected'
               /\ pulled' = pulled
               /\ buffer' = buffer
               /\ flush_calls' = flush_calls
               /\ client_out' = client_out
               /\ upstream_end' = upstream_end]_vars

\* The client left after the first chunk, with the upstream still sending;
\* the request has not been torn down yet.
C26_Witness ==
    /\ client_disconnected
    /\ upstream_end = "open"
    /\ Len(pulled) = 1
    /\ Len(client_out) = 1
    /\ ~torn

\* C27: when the upstream has answered with a status below 400, the reply is
\* streamed iff the body that was sent upstream holds a truthy `stream`; a
\* `stream` directive of the resolved entry is the value that was sent,
\* whatever the client gave; without the field, or without a JSON body, the
\* reply is buffered.
SentStream ==
    /\ json_body.json
    /\ "stream" \in DOMAIN json_body.obj
    /\ Truthy(json_body.obj["stream"])
C27_StreamedIffSentStreamTruthy ==
    (pc # "start" /\ upstream.status \in SuccessStatus) =>
        /\ response.streamed <=> SentStream
        /\ ("stream" \in DOMAIN model_specific_config /\ request_json.json) =>
              /\ "stream" \in DOMAIN json_body.obj
              /\ json_body.obj["stream"] = model_specific_config["stream"]
C27_Witness ==
    /\ pc = "streaming"
    /\ response.streamed
    /\ request_json.json
    /\ "stream" \in DOMAIN request_json.obj
    /\ request_json.obj["stream"] = JBool(FALSE)
    /\ model_specific_config["stream"] = JBool(TRUE)

\* C30: with filtering disabled, a buffered reply to a request that is not a
\* model listing, for an upstream status below 400, has the bytes of the
\* upstream body, whatever they are, and the upstream status.
C30_UnfilteredBufferedIdentical ==
    (/\ path \in Paths \ ModelListPaths
     /\ ~response.streamed
     /\ upstream.status \in SuccessStatus
     /\ ~enable_think_tag_filtering) =>
        /\ response.body = upstream.content
        /\ response.status = upstream.status

\* C29: with filtering enabled the text the client gets holds no complete
\* span, so that filtering it again changes nothing: on the buffered path
\* for every upstream body, on the streamed path when the stream has ended
\* and the buffer has been flushed.
Refiltered(body) ==
    LET delivered == Decode(body)
    IN  ReSub(delivered, TagChars(effective_think_start_tag),
                         TagChars(effective_think_end_tag)) = delivered
C29_FilterIdempotent ==
    /\ (/\ ~response.streamed
        /\ upstream.status \in SuccessStatus
        /\ enable_think_tag_filtering) => Refiltered(response.body)
    /\ (/\ response.streamed
        /\ enable_think_tag_filtering
        /\ upstream_end = "exhausted"
        /\ gen = "done") => Refiltered(Flatten(client_out))

\* C21: whatever the interleaving of two requests handled at the same time,
\* the body each sends upstream, the tags and the flag it filters with, and
\* what its client has got so far are what its own body and its own upstream
\* chunks give when it is handled alone; a streamed reply filters through a
\* buffer of its own, which exists from the start of its generator on and
\* holds what its own chunks leave in it.
Alone(h) ==
    LET cfg == SpecificConfig(h.request, PairParams)
        st  == TagChars(EffectiveStart(cfg, HardStart))
        et  == TagChars(EffectiveEnd(cfg, HardEnd))
        on  == EnableFiltering(cfg)
        run == Replay(h.pulled, <<>>, st, et)
        fin == Encode(run.buffer)
    IN  [json_body |-> AppendToLast(Rewrite(h.request, cfg), cfg),
         enable    |-> on,
         buffer    |-> IF on /\ h.phase = "streaming" THEN run.buffer ELSE <<>>,
         out       |-> IF h.phase = "replied"
                       THEN <<BufferedBody("v1/chat/completions", h.pulled[1],
                                           PairParams, on, st, et)>>
                       ELSE IF ~on THEN h.pulled
                       ELSE IF h.phase = "ended" /\ fin # <<>>
                       THEN Append(run.out, fin)
                       ELSE run.out]
C21_RequestsIndependent ==
    \A i \in DOMAIN handling :
        LET h == handling[i]
        IN  /\ h.constructed => h.phase \in {"streaming", "ended"}
            /\ ~h.constructed => h.buffer = <<>>
            /\ h.phase # "received" =>
                  /\ h.json_body = Alone(h).json_body
                  /\ h.enable = Alone(h).enable
                  /\ h.buffer = Alone(h).buffer
                  /\ h.out = Alone(h).out
C21_Witness ==
    /\ handling # Nobody
    /\ \A i \in Requests :
          /\ handling[i].phase = "streaming"
          /\ handling[i].enable
          /\ handling[i].buffer # <<>>
          /\ Len(handling[i].pulled) = MaxPair
    /\ handling[1].start # handling[2].start
    /\ handling[1].buffer # handling[2].buffer
    /\ \E i \in Requests : handling[i].out # <<>>

====
